---- MODULE Spec2Model ----
(***************************************************************************)
(* Model of autoemail (main.py): the Form_Data normalisation of a raw form *)
(* submission, parse_date, and the FastAPI app (GET /, POST /update/) that *)
(* schedules the notification e-mail as a background task.                 *)
(*                                                                         *)
(* Python strings are modelled as sequences of one-character strings, so   *)
(* that str.lower(), the substring test and the f-string formatting are    *)
(* computed character by character.  The empty string is << >>.            *)
(***************************************************************************)
EXTENDS Integers, Sequences, FiniteSets, TLC

VARIABLES
    raw_form_data,   \* Spec: the raw submission handed to Form_Data(...)
    form_data,       \* Spec: the constructed Form_Data, or the exception raised
    phase,           \* Spec: "input" while the submission is built, then "constructed"
    pc,              \* SpecApp: per request, its position in the request cycle
    request,         \* SpecApp: per request, the JSON body it carries
    returned,        \* SpecApp: per request, what the handler returned or raised
    observed,        \* SpecApp: per request, the response the caller received
    background_tasks,\* SpecApp: per request, the BackgroundTasks queue
    sends            \* SpecApp: per request, the executed fm.send_message calls

vars == <<raw_form_data, form_data, phase, pc, request, returned, observed,
          background_tasks, sends>>

form_vars == <<raw_form_data, form_data, phase>>
app_vars == <<pc, request, returned, observed, background_tasks, sends>>

----------------------------------------------------------------------------
\* Bounds of the model.

\* Largest number of entries of a raw submission built under Spec.
MaxEntries == 5

\* Number of HTTP requests the app receives under SpecApp.
NumRequests == 2

----------------------------------------------------------------------------
\* Strings.

UpperCase == <<"A","B","C","D","E","F","G","H","I","J","K","L","M",
               "N","O","P","Q","R","S","T","U","V","W","X","Y","Z">>
LowerCase == <<"a","b","c","d","e","f","g","h","i","j","k","l","m",
               "n","o","p","q","r","s","t","u","v","w","x","y","z">>

DigitChar == <<"0","1","2","3","4","5","6","7","8","9">>

\* The characters that occur in the model's strings.
Chars ==
    {UpperCase[i] : i \in 1..26} \cup {LowerCase[i] : i \in 1..26}
        \cup {DigitChar[i] : i \in 1..10} \cup {" ", "@", ".", "-", ":", "/"}

\* str.lower() on one character: an upper-case letter becomes its lower-case
\* letter, any other character stays.
LowerChar ==
    [c \in Chars |->
        IF \E i \in 1..26 : UpperCase[i] = c
        THEN LowerCase[CHOOSE i \in 1..26 : UpperCase[i] = c]
        ELSE c]

\* str.lower().
lower(s) == [i \in 1..Len(s) |-> LowerChar[s[i]]]

\* Python's `sub in s` on strings.
Contains(sub, s) ==
    \E i \in 0..(Len(s) - Len(sub)) : SubSeq(s, i + 1, i + Len(sub)) = sub

\* str(n) for a natural number n, as the f-string {n} prints it: no padding.
RECURSIVE IntToStr(_)
IntToStr(n) ==
    IF n < 10 THEN <<DigitChar[n + 1]>>
    ELSE IntToStr(n \div 10) \o <<DigitChar[(n % 10) + 1]>>

\* Two-digit, zero-padded printing (what the code does not do).
Pad2(n) == IF n < 10 THEN <<"0">> \o IntToStr(n) ELSE IntToStr(n)

EmptyStr == << >>

\* The literals of main.py.
EMAIL_ADDRESS == <<"e","m","a","i","l"," ","a","d","d","r","e","s","s">>
REVIEWED == <<"r","e","v","i","e","w","e","d">>
TIMESTAMP == <<"t","i","m","e","s","t","a","m","p">>
APPROVED == <<"a","p","p","r","o","v","e","d">>
HORA == <<"h","o","r","a">>
HOUR == <<"h","o","u","r">>

\* Keys a submission may carry.
K_Email_Address == <<"E","m","a","i","l"," ","A","d","d","r","e","s","s">>
K_email_address == <<"e","m","a","i","l"," ","a","d","d","r","e","s","s">>
K_Reviewed == <<"R","e","v","i","e","w","e","d">>
K_Timestamp == <<"T","i","m","e","s","t","a","m","p">>
K_Start_Date == <<"S","t","a","r","t"," ","D","a","t","e">>
K_Meeting_Hour == <<"M","e","e","t","i","n","g"," ","H","o","u","r">>
K_meeting_hour == <<"m","e","e","t","i","n","g"," ","h","o","u","r">>

\* Values a submission may carry.
V_a_b_com == <<"a","@","b",".","c","o","m">>
V_x_y_com == <<"x","@","y",".","c","o","m">>
V_Approved == <<"A","p","p","r","o","v","e","d">>
V_Pending == <<"P","e","n","d","i","n","g">>
V_seven == <<"s","e","v","e","n">>
V_datetime == <<"2","0","2","4","-","0","3","-","0","5","T",
                "1","4",":","0","5",":","0","0">>
V_long_number == <<"9","9","9","9","9","9","9","9","9","9",
                   "9","9","9","9","9","9","9","9","9","9">>

Keys == {K_Email_Address, K_email_address, K_Reviewed, K_Timestamp,
         K_Start_Date, K_Meeting_Hour, K_meeting_hour}

\* The values offered under each key.
ValuesOf(k) ==
    IF k = K_Email_Address THEN {EmptyStr, V_a_b_com}
    ELSE IF k = K_email_address THEN {V_x_y_com}
    ELSE IF k = K_Reviewed THEN {EmptyStr, V_Approved, V_Pending}
    ELSE IF k = K_Timestamp THEN {V_datetime}
    ELSE IF k = K_Start_Date THEN {V_seven, V_datetime, V_long_number}
    ELSE IF k = K_Meeting_Hour THEN {EmptyStr, V_datetime}
    ELSE {V_seven, V_datetime}

----------------------------------------------------------------------------
\* Python dicts keep insertion order: a dict is a sequence of <<key, value>>
\* pairs with distinct keys.

HasKey(d, k) == \E i \in DOMAIN d : d[i][1] = k

GetItem(d, k) == d[CHOOSE i \in DOMAIN d : d[i][1] = k][2]

\* The mutant of SetItem: an existing key is removed and re-inserted at the end.
RECURSIVE WithoutKey(_, _)
WithoutKey(d, k) ==
    IF d = << >> THEN << >>
    ELSE IF Head(d)[1] = k THEN WithoutKey(Tail(d), k)
    ELSE <<Head(d)>> \o WithoutKey(Tail(d), k)

SetItem_moves_to_end(d, k, v) == Append(WithoutKey(d, k), <<k, v>>)

\* d[k] = v: an existing key keeps its position and takes the new value,
\* a new key is appended.
SetItem(d, k, v) ==
    IF HasKey(d, k)
    THEN [i \in DOMAIN d |-> IF d[i][1] = k THEN <<k, v>> ELSE d[i]]
    ELSE Append(d, <<k, v>>)

----------------------------------------------------------------------------
\* Results of a call: a returned value or a raised exception.

Return(v) == [exc |-> "none", val |-> v]
Raise(e) == [exc |-> e]

----------------------------------------------------------------------------
\* parse_date and the date parser it calls.

\* dateutil.parser.parse(timestring), on the values the model offers: an ISO
\* date-time parses to a datetime; a word is no date (ParserError); a
\* 20-digit number is read as a year too large for a C int, and
\* datetime.replace raises OverflowError, which parse() does not convert to
\* ParserError (it converts ValueError only).
dateutil_parse(timestring) ==
    IF timestring = V_datetime THEN
        [kind |-> "datetime", year |-> 2024, month |-> 3, day |-> 5,
         hour |-> 14, minute |-> 5]
    ELSE IF timestring = V_long_number THEN [kind |-> "OverflowError"]
    ELSE [kind |-> "ParserError"]

\* The mutant of parse_date: hour and minute, day and month zero-padded.
parse_date_zero_padded(prompt, timestring) ==
    LET date == dateutil_parse(timestring)
    IN  IF date.kind = "ParserError" THEN Return(timestring)
        ELSE IF date.kind # "datetime" THEN Raise(date.kind)
        ELSE IF Contains(HORA, lower(prompt)) \/ Contains(HOUR, lower(prompt))
        THEN Return(Pad2(date.hour) \o <<":">> \o Pad2(date.minute))
        ELSE Return(Pad2(date.day) \o <<"/">> \o Pad2(date.month)
                    \o <<"/">> \o IntToStr(date.year))

\* parse_date(prompt, timestring): only ParserError is caught.
parse_date(prompt, timestring) ==
    LET date == dateutil_parse(timestring)
    IN  IF date.kind = "ParserError" THEN Return(timestring)
        ELSE IF date.kind # "datetime" THEN Raise(date.kind)
        ELSE IF Contains(HORA, lower(prompt)) \/ Contains(HOUR, lower(prompt))
        THEN Return(IntToStr(date.hour) \o <<":">> \o IntToStr(date.minute))
        ELSE Return(IntToStr(date.day) \o <<"/">> \o IntToStr(date.month)
                    \o <<"/">> \o IntToStr(date.year))

----------------------------------------------------------------------------
\* Form_Data.__post_init__.

\* {key.lower(): value for key, value in raw.items() if value != ""}
RECURSIVE lowered_non_empty(_)
lowered_non_empty(items) ==
    IF items = << >> THEN << >>
    ELSE LET n == Len(items)
             front == lowered_non_empty(SubSeq(items, 1, n - 1))
             e == items[n]
         IN  IF e[2] # EmptyStr THEN SetItem(front, lower(e[1]), e[2])
             ELSE front

\* The mutant of excluded_keys: "timestamp" forgotten.
excluded_keys_without_timestamp == {EMAIL_ADDRESS, REVIEWED}

excluded_keys == {EMAIL_ADDRESS, REVIEWED, TIMESTAMP}

\* The mutant of is_approved: the value compared without lowercasing.
is_approved_case_sensitive(d) == GetItem(d, REVIEWED) = APPROVED

\* self.raw_form_data["reviewed"].lower() == "approved"
is_approved(d) == lower(GetItem(d, REVIEWED)) = APPROVED

\* The list comprehension that builds self.fields; the first parse_date call
\* that raises ends it.
RECURSIVE fields_of(_)
fields_of(d) ==
    IF d = << >> THEN Return(<< >>)
    ELSE LET key == Head(d)[1]
             value == Head(d)[2]
         IN  IF key \in excluded_keys THEN fields_of(Tail(d))
             ELSE LET answer == parse_date(key, value)
                  IN  IF answer.exc # "none" THEN Raise(answer.exc)
                      ELSE LET rest == fields_of(Tail(d))
                           IN  IF rest.exc # "none" THEN rest
                               ELSE Return(<<[question |-> key,
                                              answer |-> answer.val]>>
                                           \o rest.val)

\* The mutant of Form_Data: the control keys read with a default (dict.get)
\* instead of subscripting.
Form_Data_with_defaults(raw) ==
    LET d == lowered_non_empty(raw)
        fields == fields_of(d)
    IN  IF fields.exc # "none" THEN Raise(fields.exc)
        ELSE [exc |-> "none",
              raw_form_data |-> d,
              email |-> IF HasKey(d, EMAIL_ADDRESS)
                        THEN GetItem(d, EMAIL_ADDRESS) ELSE EmptyStr,
              approved |-> HasKey(d, REVIEWED) /\ is_approved(d),
              fields |-> fields.val]

\* Form_Data(raw_form_data=raw): the dataclass after __post_init__, or the
\* exception __post_init__ raised.  d["email address"] and d["reviewed"]
\* raise KeyError on a missing key.
Form_Data(raw) ==
    LET d == lowered_non_empty(raw)
    IN  IF ~HasKey(d, EMAIL_ADDRESS) THEN Raise("KeyError")
        ELSE IF ~HasKey(d, REVIEWED) THEN Raise("KeyError")
        ELSE LET fields == fields_of(d)
             IN  IF fields.exc # "none" THEN Raise(fields.exc)
                 ELSE [exc |-> "none",
                       raw_form_data |-> d,
                       email |-> GetItem(d, EMAIL_ADDRESS),
                       approved |-> is_approved(d),
                       fields |-> fields.val]

NotConstructed == [exc |-> "not constructed"]

----------------------------------------------------------------------------
\* The app.

Requests == 1..NumRequests

NoRequest == [method |-> "none"]
NoResponse == [status_code |-> 0]

----------------------------------------------------------------------------
\* Spec: a raw submission is built entry by entry and handed to Form_Data.

AppIdle ==
    /\ pc = [r \in Requests |-> "new"]
    /\ request = [r \in Requests |-> NoRequest]
    /\ returned = [r \in Requests |-> NoResponse]
    /\ observed = [r \in Requests |-> NoResponse]
    /\ background_tasks = [r \in Requests |-> << >>]
    /\ sends = [r \in Requests |-> << >>]

Init ==
    /\ raw_form_data = << >>
    /\ form_data = NotConstructed
    /\ phase = "input"
    /\ AppIdle

\* The JSON object gains one more member (member names are distinct).
AddEntry(k, v) ==
    /\ phase = "input"
    /\ Len(raw_form_data) < MaxEntries
    /\ \A i \in DOMAIN raw_form_data : raw_form_data[i][1] # k
    /\ raw_form_data' = Append(raw_form_data, <<k, v>>)
    /\ UNCHANGED <<form_data, phase>>
    /\ UNCHANGED app_vars

\* Form_Data(raw_form_data=raw_form_data)
Construct ==
    /\ phase = "input"
    /\ form_data' = Form_Data(raw_form_data)
    /\ phase' = "constructed"
    /\ UNCHANGED raw_form_data
    /\ UNCHANGED app_vars

Next ==
    \/ \E k \in Keys : \E v \in ValuesOf(k) : AddEntry(k, v)
    \/ Construct

Spec == Init /\ [][Next]_vars

----------------------------------------------------------------------------
\* SpecApp: the FastAPI app.  Each request gets its own BackgroundTasks; the
\* framework sends the handler's response to the caller and runs the
\* request's background tasks after that.

\* The JSON bodies posted to /update/.
ApprovedSubmission ==
    << <<K_Email_Address, V_a_b_com>>, <<K_Reviewed, V_Approved>>,
       <<K_Timestamp, V_datetime>>, <<K_Meeting_Hour, V_datetime>> >>
PendingSubmission ==
    << <<K_Start_Date, V_seven>>, <<K_Reviewed, V_Pending>>,
       <<K_Email_Address, V_x_y_com>> >>
NoEmailSubmission ==
    << <<K_Reviewed, V_Approved>>, <<K_Start_Date, V_seven>> >>
EmptyReviewedSubmission ==
    << <<K_Email_Address, V_a_b_com>>, <<K_Reviewed, EmptyStr>> >>
LongNumberSubmission ==
    << <<K_Email_Address, V_a_b_com>>, <<K_Reviewed, V_Approved>>,
       <<K_Start_Date, V_long_number>> >>

Submissions == {ApprovedSubmission, PendingSubmission, NoEmailSubmission,
                EmptyReviewedSubmission, LongNumberSubmission}

\* JSONResponse(status_code=200, content={"message": "email has been sent"})
EmailSentResponse == [status_code |-> 200, message |-> "email has been sent"]

\* The return value of root(), sent with the default status.
ApiRunningResponse == [status_code |-> 200, message |-> "API running"]

\* What the server answers when the handler raised.
ServerErrorResponse == [status_code |-> 500, message |-> "Internal Server Error"]

\* MessageSchema(...) of send_email, with the template it is sent through.
MessageFor(form) ==
    [subject |-> "Fastapi mail module",
     recipients |-> <<form.email>>,
     template_body |-> [questions |-> form.fields, approved |-> form.approved],
     template_name |-> "email_template.html"]

\* The mutant of send_email: the send is awaited in the handler instead of
\* being handed to background_tasks.
send_email_awaits_send(r, form) ==
    /\ \E delivered \in BOOLEAN :
           sends' = [sends EXCEPT ![r] =
                        Append(@, [message |-> MessageFor(form),
                                   delivered |-> delivered])]
    /\ UNCHANGED background_tasks

\* The mutant of send_email: the task is added twice.
send_email_adds_task_twice(r, form) ==
    /\ background_tasks' = [background_tasks EXCEPT ![r] =
                               @ \o <<MessageFor(form), MessageFor(form)>>]
    /\ UNCHANGED sends

\* send_email(background_tasks, form_data): builds the message and adds
\* fm.send_message to the request's background tasks; sends nothing itself.
send_email(r, form) ==
    /\ background_tasks' = [background_tasks EXCEPT ![r] =
                               Append(@, MessageFor(form))]
    /\ UNCHANGED sends

\* The mutant of form_update: a failed Form_Data is swallowed and the
\* success response returned.
form_update_swallows_error(r, raw) ==
    /\ pc[r] = "new"
    /\ request' = [request EXCEPT ![r] =
                      [method |-> "POST", path |-> "/update/", body |-> raw]]
    /\ LET form == Form_Data(raw)
       IN  IF form.exc # "none"
           THEN UNCHANGED <<background_tasks, sends>>
           ELSE send_email(r, form)
    /\ returned' = [returned EXCEPT ![r] = EmailSentResponse]
    /\ pc' = [pc EXCEPT ![r] = "returned"]
    /\ UNCHANGED observed
    /\ UNCHANGED form_vars

\* GET /
root(r) ==
    /\ pc[r] = "new"
    /\ request' = [request EXCEPT ![r] = [method |-> "GET", path |-> "/"]]
    /\ returned' = [returned EXCEPT ![r] = ApiRunningResponse]
    /\ pc' = [pc EXCEPT ![r] = "returned"]
    /\ UNCHANGED <<observed, background_tasks, sends>>
    /\ UNCHANGED form_vars

\* POST /update/ with body raw: an exception of Form_Data leaves the handler
\* before send_email and the return.
form_update(r, raw) ==
    /\ pc[r] = "new"
    /\ request' = [request EXCEPT ![r] =
                      [method |-> "POST", path |-> "/update/", body |-> raw]]
    /\ LET form == Form_Data(raw)
       IN  IF form.exc # "none"
           THEN /\ returned' = [returned EXCEPT ![r] = Raise(form.exc)]
                /\ pc' = [pc EXCEPT ![r] = "raised"]
                /\ UNCHANGED <<background_tasks, sends>>
           ELSE /\ send_email(r, form)
                /\ returned' = [returned EXCEPT ![r] = EmailSentResponse]
                /\ pc' = [pc EXCEPT ![r] = "returned"]
    /\ UNCHANGED observed
    /\ UNCHANGED form_vars

\* The server sends the response of request r to the caller: what the
\* handler returned, or the server's error response when it raised.
Respond(r) ==
    /\ pc[r] \in {"returned", "raised"}
    /\ observed' = [observed EXCEPT ![r] =
                       IF pc[r] = "raised" THEN ServerErrorResponse
                       ELSE returned[r]]
    /\ pc' = [pc EXCEPT ![r] = "responded"]
    /\ UNCHANGED <<request, returned, background_tasks, sends>>
    /\ UNCHANGED form_vars

\* After the response, the next background task of request r runs:
\* fm.send_message(message, template_name=...) delivers the message or fails.
\* Either way the task is done.
RunBackgroundTask(r, delivered) ==
    /\ pc[r] = "responded"
    /\ background_tasks[r] # << >>
    /\ sends' = [sends EXCEPT ![r] =
                    Append(@, [message |-> Head(background_tasks[r]),
                               delivered |-> delivered])]
    /\ background_tasks' = [background_tasks EXCEPT ![r] = Tail(@)]
    /\ UNCHANGED <<pc, request, returned, observed>>
    /\ UNCHANGED form_vars

NextApp ==
    \E r \in Requests :
        \/ root(r)
        \/ \E raw \in Submissions : form_update(r, raw)
        \/ Respond(r)
        \/ \E delivered \in BOOLEAN : RunBackgroundTask(r, delivered)

SpecApp == Init /\ [][NextApp]_vars

----------------------------------------------------------------------------
\* Vocabulary of the properties of Form_Data, stated on the raw submission.

Constructed == phase = "constructed"
Succeeded == Constructed /\ form_data.exc = "none"

ControlKeys == {EMAIL_ADDRESS, REVIEWED, TIMESTAMP}

\* The raw submission has a key equal to k after lowercasing.
KeyPresent(raw, k) == \E i \in DOMAIN raw : lower(raw[i][1]) = k

\* The raw entries with a non-empty value under a key equal to k after lowercasing.
NonEmptyUnder(raw, k) ==
    {i \in DOMAIN raw : lower(raw[i][1]) = k /\ raw[i][2] # EmptyStr}

Max(S) == CHOOSE x \in S : \A y \in S : y <= x

\* A finite set of numbers as an increasing sequence.
RECURSIVE Ascending(_)
Ascending(S) ==
    IF S = {} THEN << >>
    ELSE LET m == CHOOSE x \in S : \A y \in S : x <= y
         IN  <<m>> \o Ascending(S \ {m})

\* The raw entries that are non-empty and whose lowercased key is no control key.
AnswerEntries(raw) ==
    {i \in DOMAIN raw : raw[i][2] # EmptyStr /\ lower(raw[i][1]) \notin ControlKeys}

\* Of these, the first entry of each lowercased key.
FirstAnswerEntries(raw) ==
    {i \in AnswerEntries(raw) :
        \A j \in AnswerEntries(raw) : lower(raw[j][1]) = lower(raw[i][1]) => i <= j}

----------------------------------------------------------------------------
\* C1: a raw submission with no key equal to "email address" after
\* lowercasing, or with no key equal to "reviewed" after lowercasing, makes
\* the construction of Form_Data fail with the missing-key error (KeyError).
C1_MissingControlKeyRaises ==
    (Constructed /\ (~KeyPresent(raw_form_data, EMAIL_ADDRESS)
                     \/ ~KeyPresent(raw_form_data, REVIEWED)))
        => form_data.exc = "KeyError"

C1_Witness ==
    /\ Constructed
    /\ NonEmptyUnder(raw_form_data, EMAIL_ADDRESS) # {}
    /\ ~KeyPresent(raw_form_data, REVIEWED)
    /\ AnswerEntries(raw_form_data) # {}
    /\ form_data.exc = "KeyError"

\* C2: a raw submission with "email address" and "reviewed" keys (any casing)
\* that have non-empty values never makes the construction raise, whatever
\* the other entries are; the record's email is the submitted email value and
\* its approved flag is set to a boolean.
C2_ControlKeysPresentNeverRaises ==
    (/\ Constructed
     /\ NonEmptyUnder(raw_form_data, EMAIL_ADDRESS) # {}
     /\ NonEmptyUnder(raw_form_data, REVIEWED) # {})
        => /\ form_data.exc = "none"
           /\ \E i \in NonEmptyUnder(raw_form_data, EMAIL_ADDRESS) :
                  form_data.email = raw_form_data[i][2]
           /\ form_data.approved \in BOOLEAN

\* C3: entries with an empty value are dropped: they produce no answer, and
\* an empty-valued entry, also one under "email address" or "reviewed", is
\* not treated as a missing control field.
C3_EmptyEntriesDroppedWithoutError ==
    Constructed =>
        /\ (KeyPresent(raw_form_data, EMAIL_ADDRESS)
            /\ KeyPresent(raw_form_data, REVIEWED))
               => form_data.exc # "KeyError"
        /\ form_data.exc = "none" =>
               \A i \in DOMAIN raw_form_data :
                   (/\ raw_form_data[i][2] = EmptyStr
                    /\ NonEmptyUnder(raw_form_data, lower(raw_form_data[i][1])) = {})
                       => \A n \in DOMAIN form_data.fields :
                              form_data.fields[n].question # lower(raw_form_data[i][1])

\* C4 as stated: on success, fields holds exactly one pair per raw entry that
\* is non-empty and whose lowercased key is no control key, in the order of
\* these entries, also when two raw keys differ only in letter case.
C4_OnePairPerEntry ==
    Succeeded =>
        LET entries == Ascending(AnswerEntries(raw_form_data))
        IN  /\ Len(form_data.fields) = Len(entries)
            /\ \A n \in DOMAIN form_data.fields :
                   n \in DOMAIN entries =>
                       form_data.fields[n].question = lower(raw_form_data[entries[n]][1])

\* C4 as amended: on success, fields holds exactly one pair per distinct
\* lowercased non-control key that has a non-empty raw entry, in the order of
\* the first non-empty entry of each such key, and the pair's answer is
\* parse_date of the value of the last non-empty entry of that key.
C4_OnePairPerLoweredKey ==
    Succeeded =>
        LET entries == Ascending(FirstAnswerEntries(raw_form_data))
        IN  /\ Len(form_data.fields) = Len(entries)
            /\ \A n \in DOMAIN entries :
                   LET key == lower(raw_form_data[entries[n]][1])
                       last == Max(NonEmptyUnder(raw_form_data, key))
                   IN  /\ form_data.fields[n].question = key
                       /\ form_data.fields[n].answer
                              = parse_date(key, raw_form_data[last][2]).val

C4_Witness ==
    /\ Succeeded
    /\ Len(form_data.fields) = 2
    /\ \E i, j, k \in AnswerEntries(raw_form_data) :
           /\ i < j /\ j < k
           /\ lower(raw_form_data[i][1]) = lower(raw_form_data[k][1])
           /\ lower(raw_form_data[i][1]) # lower(raw_form_data[j][1])
           /\ raw_form_data[i][2] # raw_form_data[k][2]
           /\ form_data.fields[1].question = lower(raw_form_data[i][1])
           /\ form_data.fields[1].answer = raw_form_data[k][2]

\* C5: on success, approved is true exactly when the value stored under the
\* key "reviewed" (case-insensitive), lowercased, equals "approved".
C5_ApprovedIffReviewedIsApproved ==
    Succeeded =>
        LET last == Max(NonEmptyUnder(raw_form_data, REVIEWED))
        IN  form_data.approved = (lower(raw_form_data[last][2]) = APPROVED)

C5_Witness ==
    /\ Succeeded
    /\ \E i \in DOMAIN raw_form_data :
           raw_form_data[i] = <<K_Reviewed, V_Approved>>
    /\ form_data.approved = TRUE

\* C6: no entry of fields has the question "email address", "reviewed" or
\* "timestamp", whatever the casing of the raw keys.
C6_NoControlKeyInFields ==
    Succeeded =>
        \A n \in DOMAIN form_data.fields :
            form_data.fields[n].question \notin ControlKeys

C6_Witness ==
    /\ Succeeded
    /\ \E i \in DOMAIN raw_form_data : raw_form_data[i][1] = K_Timestamp
    /\ \E i \in DOMAIN raw_form_data : raw_form_data[i][1] = K_Email_Address
    /\ form_data.fields # << >>

----------------------------------------------------------------------------
\* Vocabulary of the properties of the app.

IsUpdate(r) == request[r].method = "POST"

\* The record of request r's submission.
RecordOf(r) == Form_Data(request[r].body)

Normalizes(r) == IsUpdate(r) /\ RecordOf(r).exc = "none"
FailsNormalization(r) == IsUpdate(r) /\ RecordOf(r).exc # "none"

\* The outbound messages of request r, scheduled or already sent.
MessagesOf(r) ==
    background_tasks[r] \o [n \in DOMAIN sends[r] |-> sends[r][n].message]

\* Request r has exactly one outbound message, addressed to its record's
\* email alone and carrying its record's answers and approved flag.
OneOwnMessage(r) ==
    /\ Len(MessagesOf(r)) = 1
    /\ MessagesOf(r)[1].recipients = <<RecordOf(r).email>>
    /\ MessagesOf(r)[1].template_body
           = [questions |-> RecordOf(r).fields, approved |-> RecordOf(r).approved]

C9_SendAfterResponseNoRetry ==
    \A r \in Requests :
        sends[r] # << >> =>
            /\ pc[r] = "responded"
            /\ observed[r] = EmailSentResponse
            /\ Len(sends[r]) = 1
            /\ sends[r][1].message = MessageFor(RecordOf(r))
            /\ background_tasks[r] = << >>

C9_Witness ==
    \E r \in Requests :
        /\ Len(sends[r]) = 1
        /\ sends[r][1].delivered = FALSE
        /\ background_tasks[r] = << >>
        /\ observed[r] = EmailSentResponse

\* C10: a request to /update/ whose submission fails normalization never
\* gets the 200 "email has been sent" response and has no outbound message
\* scheduled or sent; every other request whose submission normalizes still
\* has its own response and its own message.
C10_FailureStaysInItsRequest ==
    \A r \in Requests :
        FailsNormalization(r) =>
            /\ returned[r] = Raise(RecordOf(r).exc)
            /\ observed[r] # EmailSentResponse
            /\ MessagesOf(r) = << >>
            /\ \A other \in Requests \ {r} :
                   Normalizes(other) =>
                       /\ returned[other] = EmailSentResponse
                       /\ OneOwnMessage(other)

C10_Witness ==
    \E r, other \in Requests :
        /\ request[r].method = "POST"
        /\ request[r].body = NoEmailSubmission
        /\ pc[r] = "responded"
        /\ observed[r] = ServerErrorResponse
        /\ request[other].method = "POST"
        /\ request[other].body = PendingSubmission
        /\ observed[other] = EmailSentResponse
        /\ Len(sends[other]) = 1
        /\ sends[other][1].message.recipients = <<V_x_y_com>>

====
